---- MODULE Spec2Model ----
(***************************************************************************)
(* Helios trading microservice: the metrics deriver, the two analyzers and *)
(* the Flask routes that drive them.                                       *)
(*                                                                         *)
(* Numbers.  Prices are integers (pips), sizes integers (hundredths of a   *)
(* lot), dates integers (minutes since an epoch), money integers.  A       *)
(* quotient the code computes in floating point is kept exact, as the pair *)
(* <<numerator, denominator>>; a denominator of 0 is IEEE inf (numerator   *)
(* non-zero) or NaN (numerator zero).                                      *)
(***************************************************************************)
EXTENDS Integers, Sequences, FiniteSets, TLC

VARIABLES
    request_json,       \* the body of the request being served (a list of items)
    argsort,            \* what the build's sort returns for the date column of request_json
    quantile,           \* the quantile routine the build's pd.qcut calls
    frames,             \* the DataFrames alive: frame id -> DataFrame (or NoFrame)
    pattern_analyzer,   \* PatternAnalyzer.trades_df: a frame id, 0 before construction
    behavior_analyzer,  \* BehaviorAnalyzer.trades_df: a frame id, 0 before construction
    lastCall,           \* the last analyzer method called and what it returned
    response            \* what the last route handler answered

vars == <<request_json, argsort, quantile, frames, pattern_analyzer, behavior_analyzer,
          lastCall, response>>

----------------------------------------------------------------------------
(* Bounds of the model *)

MaxTrades == 3

(* Program constants *)

QuickTradeMinutes == 30
MinutesPerDay == 1440
TargetBuckets == 4

----------------------------------------------------------------------------
(* Small arithmetic helpers *)

Abs(x) == IF x < 0 THEN -x ELSE x

Min2(a, b) == IF a <= b THEN a ELSE b

RECURSIVE SumSeq(_)
SumSeq(s) == IF s = << >> THEN 0 ELSE Head(s) + SumSeq(Tail(s))

RECURSIVE ProdSeq(_)
ProdSeq(s) == IF s = << >> THEN 1 ELSE Head(s) * ProdSeq(Tail(s))

Range(s) == {s[i] : i \in DOMAIN s}

Perms(n) == {p \in [1..n -> 1..n] : \A i, j \in 1..n : i # j => p[i] # p[j]}

----------------------------------------------------------------------------
(* TradeSchema: the fields of one item of the payload *)

RequiredFields ==
    {"accountId", "pair", "direction", "status", "date", "accountBalance",
     "entryPrice", "size", "stopLoss", "target", "exitPrice", "netPNL",
     "accountChange"}

DeclaredFields == RequiredFields \cup {"strategy"}

\* schema.load(request.json) of TradeSchema(many=True): every item carries every
\* required field and no field the schema does not declare (unknown = RAISE).
SchemaLoads(payload) ==
    \A i \in DOMAIN payload :
        /\ RequiredFields \subseteq DOMAIN payload[i]
        /\ DOMAIN payload[i] \subseteq DeclaredFields

----------------------------------------------------------------------------
(* calculate_trade_metrics *)

\* One row of the DataFrame: the trade and the three derived columns.
DerivedRow(t) ==
    [pair |-> t.pair, direction |-> t.direction, status |-> t.status,
     date |-> t.date, accountBalance |-> t.accountBalance,
     entryPrice |-> t.entryPrice, size |-> t.size, stopLoss |-> t.stopLoss,
     target |-> t.target, netPNL |-> t.netPNL, accountChange |-> t.accountChange,
     risk |-> Abs(t.entryPrice - t.stopLoss),
     reward |-> Abs(t.target - t.entryPrice),
     rr_ratio |-> <<Abs(t.target - t.entryPrice), Abs(t.entryPrice - t.stopLoss)>>]

\* The orders df.sort_values('date') can return: the default kind is quicksort,
\* which is not stable, so rows of equal date come out in an order the build picks.
SortedOrders(trades) ==
    {p \in Perms(Len(trades)) :
        \A i \in 1..(Len(trades) - 1) : trades[p[i]].date <= trades[p[i + 1]].date}

\* The columns calculate_trade_metrics reads: df['date'], df['entryPrice'], ...
\* raise KeyError on a table without them (an empty list, or items that carry
\* none of the trade fields).
HasTradeColumns(trades) ==
    /\ Len(trades) > 0
    /\ \A i \in DOMAIN trades :
          {"date", "entryPrice", "stopLoss", "target"} \subseteq DOMAIN trades[i]

\* The derived table left in the order of the input list.
calculate_trade_metrics_unsorted(trades, order) ==
    [rows |-> [i \in 1..Len(trades) |-> DerivedRow(trades[i])],
     size_quartile |-> << >>,
     time_to_next_trade |-> << >>]

\* DataFrame(trades), the derived columns, then sort_values('date') in the order
\* `order`.  The two columns the analyzers assign later are absent (<< >>).
calculate_trade_metrics(trades, order) ==
    [rows |-> [i \in 1..Len(trades) |-> DerivedRow(trades[order[i]])],
     size_quartile |-> << >>,
     time_to_next_trade |-> << >>]

----------------------------------------------------------------------------
(* pandas: quantiles, qcut and the aggregations the analyzers use *)

\* What a raising call and a returning call hand back.
Raise(e) == [raised |-> e, value |-> << >>]

Return(v) == [raised |-> "", value |-> v]

\* A call's result bound to a name: the call is made once and what follows
\* works on the value it returned.
Bind(call, Then(_)) == CHOOSE r \in {Then(v) : v \in {call}} : TRUE

\* float(x.round(4)) of the quotient num / den, in units of 1e-4.
Round4(num, den) == (20000 * num + den) \div (2 * den)

\* Series.std() (ddof = 1) of the values xs, kept as the variance
\* <<n * sum(x^2) - sum(x)^2, n * (n - 1)>>; one value gives <<0, 0>>, NaN.
Variance(xs) ==
    LET n == Len(xs)
        s == SumSeq(xs)
        q == SumSeq([i \in 1..n |-> xs[i] * xs[i]])
    IN <<n * q - s * s, n * (n - 1)>>

\* The row numbers of a boolean mask, in table order.
RECURSIVE Ascending(_)
Ascending(idx) ==
    IF idx = {} THEN << >>
    ELSE LET m == CHOOSE i \in idx : \A j \in idx : i <= j
         IN <<m>> \o Ascending(idx \ {m})

\* The rows of a group, in table order, projected on one column.
Column(rows, idx, col(_)) ==
    LET pick == Ascending(idx)
    IN [i \in 1..Len(pick) |-> col(rows[pick[i]])]

Wins(rows, idx) == Cardinality({i \in idx : rows[i].status = "win"})

\* Series.quantile(linspace(0, 1, q + 1)) with linear interpolation: the q + 1
\* edges, each multiplied by q so that they stay integers.
QuantileEdges(xs, q) ==
    LET s == SortSeq(xs, LAMBDA a, b : a < b)
        n == Len(s)
    IN [k \in 1..(q + 1) |->
          LET t  == (n - 1) * (k - 1)
              lo == t \div q
              r  == t % q
          IN IF r = 0 THEN q * s[lo + 1]
                      ELSE q * s[lo + 1] + r * (s[lo + 2] - s[lo + 1])]

\* algos.unique of a non-decreasing sequence.
RECURSIVE Unique(_)
Unique(s) ==
    IF Len(s) <= 1 THEN s
    ELSE IF s[1] = s[2] THEN Unique(Tail(s))
         ELSE <<s[1]>> \o Unique(Tail(s))

\* pd.qcut(xs, q, labels, duplicates): nlabels is len(labels), or -1 for
\* labels=None (interval labels).  Returns the bin edges kept (times q) and,
\* for every value, the number of its bin (0 for NaN), or raises ValueError.
qcut(xs, q, nlabels, duplicates) ==
    Bind(xs, LAMBDA values :
    Bind(QuantileEdges(values, q), LAMBDA edges :
    Bind(Unique(edges), LAMBDA uniq :
    Bind(IF Len(uniq) < Len(edges) /\ Len(edges) # 2 THEN uniq ELSE edges, LAMBDA bins :
    LET dups  == Len(uniq) < Len(edges) /\ Len(edges) # 2
        id(x) == IF q * x = bins[1] THEN 1
                 ELSE Cardinality({j \in DOMAIN bins : bins[j] < q * x})
        code(x) == Bind(id(x), LAMBDA c : IF c = Len(bins) \/ c = 0 THEN 0 ELSE c)
    IN IF dups /\ duplicates = "raise"
         THEN Raise("ValueError: Bin edges must be unique")
       ELSE IF nlabels # -1 /\ nlabels # Len(bins) - 1
         THEN Raise("ValueError: Bin labels must be one fewer than the number of bin edges")
       ELSE Return([bins |-> bins,
                    codes |-> [i \in DOMAIN values |-> code(values[i])]])))))

----------------------------------------------------------------------------
(* pd.qcut of a column that holds inf or NaN *)

\* A float of such a column: finite (its numerator over the column's common
\* denominator), +inf or NaN.
Finite(v) == <<0, v>>
Inf == <<1, 0>>
NaN == <<2, 0>>

\* The quantile routines pd.qcut has called: numpy's np.quantile (directly or
\* through Series.quantile), and pandas' own algos.quantile before that.
QuantileBuilds == {"numpy", "pandas"}

\* q times the edge between a and b (a <= b) at fraction r / q.
\* numpy: _lerp, a + (b - a) * t for t < 0.5 and b - (b - a) * (1 - t) from
\* 0.5 on, so inf * 0 and inf - inf are NaN.
\* pandas: _get_score, the value itself at a whole index, else
\* a + (b - a) * fraction.
Interpolate(build, a, b, r, q) ==
    IF a[1] = 0 /\ b[1] = 0 THEN Finite(q * a[2] + r * (b[2] - a[2]))
    ELSE IF build = "numpy"
      THEN IF a[1] = 0 /\ r > 0 /\ 2 * r < q THEN Inf ELSE NaN
    ELSE IF r = 0 THEN (IF a[1] = 0 THEN Finite(q * a[2]) ELSE a)
    ELSE IF a[1] = 0 THEN Inf
    ELSE NaN

\* The q + 1 edges of the values s (NaN dropped, sorted, inf last), times q;
\* all NaN when no value is left.
QuantileEdgesFloat(build, s, q) ==
    LET m == Len(s)
    IN [k \in 1..(q + 1) |->
          IF m = 0 THEN NaN
          ELSE LET t  == (m - 1) * (k - 1)
                   lo == t \div q
               IN Interpolate(build, s[lo + 1], s[Min2(lo + 2, m)], t % q, q)]

\* algos.unique: the first occurrence of every value, NaN being one value.
RECURSIVE UniqueFirst(_)
UniqueFirst(s) ==
    IF s = << >> THEN << >>
    ELSE LET front == UniqueFirst(SubSeq(s, 1, Len(s) - 1))
         IN IF s[Len(s)] \in Range(front) THEN front ELSE Append(front, s[Len(s)])

FloatLess(a, b) == a[1] < b[1] \/ (a[1] = 0 /\ b[1] = 0 /\ a[2] < b[2])

\* pd.qcut(xs, q, duplicates=...) with interval labels, on floats.  The
\* intervals are built by IntervalIndex.from_breaks, which refuses breaks of
\* which some but not all are NaN, and made the categories of a Categorical,
\* which refuses a NaN interval.
qcut_float(build, xs, q, duplicates) ==
    Bind(xs, LAMBDA values :
    Bind(SortSeq(SelectSeq(values, LAMBDA x : x[1] = 0), LAMBDA a, b : a[2] < b[2])
           \o SelectSeq(values, LAMBDA x : x[1] = 1), LAMBDA sorted :
    Bind(QuantileEdgesFloat(build, sorted, q), LAMBDA edges :
    Bind(UniqueFirst(edges), LAMBDA uniq :
    Bind(IF Len(uniq) < Len(edges) /\ Len(edges) # 2 THEN uniq ELSE edges, LAMBDA bins :
    Bind({j \in DOMAIN bins : bins[j] = NaN}, LAMBDA nans :
    LET dups   == Len(uniq) < Len(edges) /\ Len(edges) # 2
        times(x) == IF x[1] = 0 THEN Finite(q * x[2]) ELSE x
        id(x)  == IF x = NaN \/ nans # {} THEN 0
                  ELSE IF times(x) = bins[1] THEN 1
                  ELSE Cardinality({j \in DOMAIN bins : FloatLess(bins[j], times(x))})
        code(x) == Bind(id(x), LAMBDA c : IF c = Len(bins) THEN 0 ELSE c)
    IN IF dups /\ duplicates = "raise"
         THEN Raise("ValueError: Bin edges must be unique")
       ELSE IF nans # {} /\ nans # DOMAIN bins
         THEN Raise("ValueError: missing values must be missing in the same location both left and right sides")
       ELSE IF nans # {} /\ Len(bins) > 1
         THEN Raise("ValueError: Categorical categories cannot be null")
       ELSE Return([bins |-> bins,
                    codes |-> [i \in DOMAIN values |-> code(values[i])]])))))))

----------------------------------------------------------------------------
(* PatternAnalyzer *)

SizeLabels == <<"Small", "Medium", "Large", "Very Large">>

\* The rows of a table whose column `col` holds the value v.
RowsWhere(col, v) == {i \in DOMAIN col : col[i] = v}

\* groupby(...).agg({'status': win share, 'netPNL': [mean, std],
\* 'accountChange': [mean, std]}).round(4) for the rows idx of one size bucket.
SizeGroupStats(rows, idx) ==
    LET pnl == Column(rows, idx, LAMBDA r : r.netPNL)
        chg == Column(rows, idx, LAMBDA r : r.accountChange)
        n   == Cardinality(idx)
    IN [win_rate |-> Round4(Wins(rows, idx), n),
        netPNL |-> [mean |-> Round4(SumSeq(pnl), n), std |-> Variance(pnl)],
        accountChange |-> [mean |-> Round4(SumSeq(chg), n), std |-> Variance(chg)]]

\* analyze_position_size_impact: qcut of the sizes, the size_quartile column
\* assigned to the table, then the per-bucket aggregation over that column.
\* Returns the table as the call leaves it and what the call returns.
analyze_position_size_impact(df) ==
    LET n     == Len(df.rows)
        sizes == [i \in 1..n |-> df.rows[i].size]
    IN Bind(IF n < TargetBuckets
              THEN qcut(sizes, Min2(n, TargetBuckets),
                        Len(SubSeq(SizeLabels, 1, n)), "drop")
              ELSE qcut(sizes, TargetBuckets, Len(SizeLabels), "raise"), LAMBDA cut :
       IF cut.raised # ""
         THEN [df |-> df, ret |-> cut]
         ELSE Bind([i \in 1..n |->
                      IF cut.value.codes[i] = 0 THEN "NaN"
                      ELSE SizeLabels[cut.value.codes[i]]], LAMBDA column :
              Bind([df EXCEPT !.size_quartile = column], LAMBDA df2 :
              Bind(Range(df2.size_quartile) \ {"NaN"}, LAMBDA groups :
                 [df |-> df2,
                  ret |-> Return([g \in groups |->
                             Bind(RowsWhere(df2.size_quartile, g), LAMBDA idx :
                                  SizeGroupStats(df2.rows, idx))])]))))

\* analyze_pair_direction_bias: pair -> direction -> metrics, for the (pair,
\* direction) groups that have rows.
analyze_pair_direction_bias(df) ==
    LET rows  == df.rows
        pairs == {rows[i].pair : i \in DOMAIN rows}
        dirs(p) == {rows[i].direction : i \in {j \in DOMAIN rows : rows[j].pair = p}}
        grp(p, d) == {i \in DOMAIN rows : rows[i].pair = p /\ rows[i].direction = d}
        stats(idx) ==
            [win_rate |-> Round4(Wins(rows, idx), Cardinality(idx)),
             avg_netPNL |-> Round4(SumSeq(Column(rows, idx, LAMBDA r : r.netPNL)),
                                   Cardinality(idx)),
             avg_accountChange |->
                 Round4(SumSeq(Column(rows, idx, LAMBDA r : r.accountChange)),
                        Cardinality(idx))]
    IN [df |-> df,
        ret |-> Return([p \in pairs |-> [d \in dirs(p) |-> stats(grp(p, d))]])]

\* The rr_ratio column on one common denominator (the product of the risks):
\* the integer numerators.  Every risk is positive here.
RRValues(rows) ==
    LET d == ProdSeq([i \in DOMAIN rows |-> rows[i].risk])
    IN [i \in DOMAIN rows |-> rows[i].reward * (d \div rows[i].risk)]

\* reward / risk is +inf for a risk of 0 and a positive reward, NaN for 0 / 0.
ZeroRisk(rows) == \E i \in DOMAIN rows : rows[i].risk = 0

\* The common denominator of the finite values of the rr_ratio column.
RRDenominator(rows) ==
    ProdSeq([i \in DOMAIN rows |-> IF rows[i].risk = 0 THEN 1 ELSE rows[i].risk])

RRFloats(rows) ==
    [i \in DOMAIN rows |->
        IF rows[i].risk # 0
          THEN Finite(rows[i].reward * (RRDenominator(rows) \div rows[i].risk))
        ELSE IF rows[i].reward > 0 THEN Inf
        ELSE NaN]

\* f"{x:.2f}" of float('inf') is "inf"; as a number it is above every other.
InfHundredths == 1000000000

\* f"{x:.2f}" of num / den, in hundredths.
Hundredths(num, den) == (200 * num + den) \div (2 * den)

\* The key f"{left:.2f}-{right:.2f}" of bin b.  The left edge of the lowest bin
\* is the edge minus 10^-3 (include_lowest); neg says the text starts with "-".
IntervalKey(bins, b, den) ==
    [left  |-> IF b = 1 THEN (2000 * bins[1] + 8 * den) \div (20 * den)
               ELSE Hundredths(bins[b], den),
     right |-> Hundredths(bins[b + 1], den),
     neg   |-> b = 1 /\ 1000 * bins[1] < den]

IntervalKeyFloat(bins, b, den) ==
    [left  |-> IF bins[b] = Inf THEN InfHundredths
               ELSE IntervalKey([j \in DOMAIN bins |-> bins[j][2]], b, den).left,
     right |-> IF bins[b + 1] = Inf THEN InfHundredths
               ELSE Hundredths(bins[b + 1][2], den),
     neg   |-> b = 1 /\ bins[1][1] = 0 /\ 1000 * bins[1][2] < den]

\* analyze_risk_reward_patterns: qcut of rr_ratio with interval labels, then
\* the per-interval aggregation.  Two intervals with the same key text share one
\* dictionary entry, the later one written last.
analyze_risk_reward_patterns(df) ==
    LET rows == df.rows
        n    == Len(rows)
        q    == IF n < TargetBuckets THEN Min2(n, TargetBuckets) ELSE TargetBuckets
        duplicates == IF n < TargetBuckets THEN "drop" ELSE "raise"
    IN Bind(IF ZeroRisk(rows)
              THEN qcut_float(quantile, RRFloats(rows), q, duplicates)
              ELSE qcut(RRValues(rows), q, -1, duplicates), LAMBDA cut :
       IF cut.raised # ""
         THEN [df |-> df, ret |-> cut]
         ELSE Bind(cut.value.codes, LAMBDA codes :
              Bind(cut.value.bins, LAMBDA bins :
              Bind(q * RRDenominator(rows), LAMBDA den :
              Bind(Range(codes) \ {0}, LAMBDA used :
              Bind([b \in used |-> IF ZeroRisk(rows) THEN IntervalKeyFloat(bins, b, den)
                                   ELSE IntervalKey(bins, b, den)], LAMBDA key :
              LET last(k) == CHOOSE b \in used :
                                 key[b] = k /\ \A c \in used : key[c] = k => c <= b
                  stats(idx) ==
                      [win_rate |-> Round4(Wins(rows, idx), Cardinality(idx)),
                       avg_netPNL |->
                           Round4(SumSeq(Column(rows, idx, LAMBDA r : r.netPNL)),
                                  Cardinality(idx))]
              IN [df |-> df,
                  ret |-> Return([k \in {key[b] : b \in used} |->
                                    Bind(RowsWhere(codes, last(k)), LAMBDA idx :
                                         stats(idx))])]))))))

\* sorted(analysis.keys()) of the size labels: the order of their text.
AlphabeticalLabels == <<"Large", "Medium", "Small", "Very Large">>

\* The sentence comparing the last category against the first, if they differ:
\* "Larger ... with {last} ... compared to ... {first}" when the last has the
\* higher value, "Smaller ... with {first} ... compared to ... {last}" when the
\* first has it.  Either way the last category is the one spoken of as larger.
Comparison(what, first, last, vfirst, vlast) ==
    IF vlast > vfirst
      THEN <<[says |-> what, higher |-> last, lower |-> first,
              larger |-> last, smaller |-> first]>>
    ELSE IF vfirst > vlast
      THEN <<[says |-> what, higher |-> first, lower |-> last,
              larger |-> last, smaller |-> first]>>
    ELSE << >>

\* get_position_size_insights: the analysis run again, its keys sorted, and the
\* last category compared with the first on win rate and on mean netPNL.
get_position_size_insights(df) ==
    Bind(analyze_position_size_impact(df), LAMBDA out :
       IF out.ret.raised # "" THEN out
       ELSE LET analysis == out.ret.value
                size_categories ==
                    SelectSeq(AlphabeticalLabels, LAMBDA c : c \in DOMAIN analysis)
                first == size_categories[1]
                last  == size_categories[Len(size_categories)]
            IN IF size_categories = << >>
                 THEN [df |-> out.df, ret |-> Raise("IndexError: list index out of range")]
                 ELSE [df |-> out.df,
                       ret |-> Return(
                           Comparison("win_rate", first, last,
                                      analysis[first].win_rate, analysis[last].win_rate)
                           \o Comparison("netPNL", first, last,
                                         analysis[first].netPNL.mean,
                                         analysis[last].netPNL.mean))])

\* get_pair_direction_insights: one sentence per pair whose two directions
\* differ by more than 0.1 in win rate or that was traded in one direction only;
\* a fixed sentence when there is none.  The sentences are kept as a set.
get_pair_direction_insights(df) ==
    LET analysis == analyze_pair_direction_bias(df).ret.value
        both == {p \in DOMAIN analysis : DOMAIN analysis[p] = {"long", "short"}}
        sentences ==
            {[pair |-> p, says |-> "significantly higher",
              better |-> IF analysis[p]["long"].win_rate > analysis[p]["short"].win_rate
                           THEN "long" ELSE "short"] :
                p \in {b \in both :
                         Abs(analysis[b]["long"].win_rate
                             - analysis[b]["short"].win_rate) > 1000}}
            \cup {[pair |-> p, says |-> "only",
                   better |-> IF "long" \in DOMAIN analysis[p] THEN "long" ELSE "short"] :
                     p \in DOMAIN analysis \ both}
    IN [df |-> df,
        ret |-> Return(IF sentences = {}
                         THEN {[pair |-> << >>, says |-> "no significant bias",
                                better |-> ""]}
                         ELSE sentences)]

\* get_risk_reward_insights: the keys sorted by float(key.split('-')[0]), which
\* is float('') for a key that starts with "-", then the last interval compared
\* with the first.
get_risk_reward_insights(df) ==
    Bind(analyze_risk_reward_patterns(df), LAMBDA out :
       IF out.ret.raised # "" THEN out
       ELSE LET analysis == out.ret.value
                keys  == DOMAIN analysis
                first == CHOOSE k \in keys : \A o \in keys :
                            k.left < o.left \/ (k.left = o.left /\ k.right <= o.right)
                last  == CHOOSE k \in keys : \A o \in keys :
                            k.left > o.left \/ (k.left = o.left /\ k.right >= o.right)
            IN IF \E k \in keys : k.neg
                 THEN [df |-> out.df,
                       ret |-> Raise("ValueError: could not convert string to float: ''")]
               ELSE IF keys = {}
                 THEN [df |-> out.df, ret |-> Raise("IndexError: list index out of range")]
               ELSE [df |-> out.df,
                     ret |-> Return(
                         Comparison("win_rate", first, last,
                                    analysis[first].win_rate, analysis[last].win_rate)
                         \o Comparison("netPNL", first, last,
                                       analysis[first].avg_netPNL,
                                       analysis[last].avg_netPNL))])

\* get_all_insights: the three insight methods in turn; the first that raises
\* ends the call.
get_all_insights(df) ==
    Bind(get_position_size_insights(df), LAMBDA a :
    IF a.ret.raised # "" THEN a ELSE
    Bind(get_pair_direction_insights(a.df), LAMBDA b :
    Bind(get_risk_reward_insights(b.df), LAMBDA c :
    IF c.ret.raised # "" THEN c
    ELSE [df |-> c.df,
          ret |-> Return([position_size_insights |-> a.ret.value,
                          pair_direction_insights |-> b.ret.value,
                          risk_reward_insights |-> c.ret.value])])))

\* The pairs of the model in the order of their text, which is the order of the
\* groupby keys and so of the dictionary analyze_pair_direction_bias returns.
PairsInOrder == <<<<"AUD", "/", "USD">>, <<"EUR", "/", "AUD">>, <<"USD", "/", "JPY">>>>

\* max(categories, key=...): the first of the categories with the highest value.
FirstMax(categories, value) ==
    categories[CHOOSE i \in DOMAIN categories :
                  /\ \A j \in DOMAIN categories : value[categories[j]] <= value[categories[i]]
                  /\ \A j \in 1..(i - 1) : value[categories[j]] < value[categories[i]]]

\* get_key_trading_insights: a line naming the first two (pair, direction)
\* groups whose win rate is 1.0, only if there is one; a line naming the size
\* bucket of highest win rate; a line naming the rr interval of highest win
\* rate.  The three analyses are run again for it.
get_key_trading_insights(df) ==
    Bind(analyze_pair_direction_bias(df), LAMBDA direction :
    Bind(analyze_position_size_impact(direction.df), LAMBDA size :
    IF size.ret.raised # "" THEN size ELSE
    Bind(analyze_risk_reward_patterns(size.df), LAMBDA rr :
    LET direction_analysis == direction.ret.value
        groups == [i \in 1..(2 * Len(PairsInOrder)) |->
                     [pair |-> PairsInOrder[(i + 1) \div 2],
                      direction |-> IF i % 2 = 1 THEN "long" ELSE "short"]]
        best_pairs ==
            SelectSeq(groups, LAMBDA g :
                /\ g.pair \in DOMAIN direction_analysis
                /\ g.direction \in DOMAIN direction_analysis[g.pair]
                /\ direction_analysis[g.pair][g.direction].win_rate = 10000)
        size_analysis == size.ret.value
        size_categories ==
            SelectSeq(AlphabeticalLabels, LAMBDA c : c \in DOMAIN size_analysis)
        best_size == FirstMax(size_categories,
                              [c \in DOMAIN size_analysis |-> size_analysis[c].win_rate])
        rr_analysis == rr.ret.value
        keys == DOMAIN rr_analysis
        top == {k \in keys : \A o \in keys : rr_analysis[o].win_rate <= rr_analysis[k].win_rate}
        best_rr == CHOOSE k \in top : \A o \in top :
                       k.left < o.left \/ (k.left = o.left /\ k.right <= o.right)
    IN IF size_categories = << >>
         THEN [df |-> size.df, ret |-> Raise("ValueError: max() arg is an empty sequence")]
       ELSE IF rr.ret.raised # "" THEN rr
       ELSE IF \E k \in keys : k.neg
         THEN [df |-> rr.df,
               ret |-> Raise("ValueError: could not convert string to float: ''")]
       ELSE IF keys = {}
         THEN [df |-> rr.df, ret |-> Raise("ValueError: max() arg is an empty sequence")]
       ELSE [df |-> rr.df,
             ret |-> Return(
                 (IF best_pairs = << >> THEN << >>
                  ELSE <<[about |-> "Pair Direction",
                          names |-> SubSeq(best_pairs, 1, Min2(2, Len(best_pairs))),
                          win_rate |-> 10000]>>)
                 \o <<[about |-> "Position Size", names |-> <<best_size>>,
                        win_rate |-> size_analysis[best_size].win_rate],
                       [about |-> "Risk-Reward", names |-> <<best_rr>>,
                        win_rate |-> rr_analysis[best_rr].win_rate]>>)])))

----------------------------------------------------------------------------
(* BehaviorAnalyzer *)

NaT == -1

\* Series.mean() of the values xs as <<sum, count>>: <<0, 0>>, NaN, when empty.
Mean(xs) == <<SumSeq(xs), Len(xs)>>

\* Series.std() of a column whose entries are quotients, named by its column:
\* the square root is not taken in the model.
StdOf(column) == [std_of |-> column]

\* detect_overtrading with the trades grouped by their timestamp, not their day.
detect_overtrading_by_timestamp(df) ==
    LET rows  == df.rows
        days  == {rows[i].date : i \in DOMAIN rows}
        cnt(d) == Cardinality({i \in DOMAIN rows : rows[i].date = d})
        m     == Cardinality(days)
        s     == Len(rows)
        sq    == SumSeq([i \in DOMAIN rows |-> cnt(rows[i].date)])
        over(c) == /\ m > 1
                   /\ c * m > s
                   /\ (c * m - s) * (c * m - s) * (m - 1) > m * (m * sq - s * s)
    IN [df |-> df,
        ret |-> Return(
           [avg_trades_per_day |-> <<s, m>>,
            max_trades_per_day |-> CHOOSE c \in {cnt(d) : d \in days} :
                                       \A d \in days : cnt(d) <= c,
            days_with_excessive_trading |-> Cardinality({d \in days : over(cnt(d))}),
            trading_frequency_distribution |->
                [c \in {cnt(d) : d \in days} |-> Cardinality({d \in days : cnt(d) = c})]])]

\* detect_overtrading: the trades per calendar day, their mean and maximum, the
\* days with more than mean + std trades, and how many days have each count.
detect_overtrading(df) ==
    LET rows  == df.rows
        day(i) == rows[i].date \div MinutesPerDay
        days  == {day(i) : i \in DOMAIN rows}
        cnt(d) == Cardinality({i \in DOMAIN rows : day(i) = d})
        m     == Cardinality(days)
        s     == Len(rows)
        sq    == SumSeq([i \in DOMAIN rows |-> cnt(day(i))])
        \* c > mean + std, with mean = s / m and std^2 = (m*sq - s*s) / (m*(m-1));
        \* std is NaN for a single day and the comparison is then False
        over(c) == /\ m > 1
                   /\ c * m > s
                   /\ (c * m - s) * (c * m - s) * (m - 1) > m * (m * sq - s * s)
    IN [df |-> df,
        ret |-> Return(
           [avg_trades_per_day |-> <<s, m>>,
            max_trades_per_day |-> CHOOSE c \in {cnt(d) : d \in days} :
                                       \A d \in days : cnt(d) <= c,
            days_with_excessive_trading |-> Cardinality({d \in days : over(cnt(d))}),
            trading_frequency_distribution |->
                [c \in {cnt(d) : d \in days} |-> Cardinality({d \in days : cnt(d) = c})]])]

\* The filter with the comparison made inclusive.
QuickAfterLossInclusive(status, gap) ==
    status = "loss" /\ gap # NaT /\ gap <= QuickTradeMinutes

\* (status == 'loss') & (time_to_next_trade < pd.Timedelta(minutes=30)); a
\* comparison with NaT is False.
QuickAfterLoss(status, gap) ==
    status = "loss" /\ gap # NaT /\ gap < QuickTradeMinutes

\* detect_revenge_trading: the time_to_next_trade column assigned to the table
\* (NaT on the last row), the losses followed within 30 minutes, and the two
\* statistics over the filtered table shifted by one row.
detect_revenge_trading(df) ==
    LET n      == Len(df.rows)
        column == [i \in 1..n |->
                     IF i < n THEN df.rows[i + 1].date - df.rows[i].date ELSE NaT]
        df2    == [df EXCEPT !.time_to_next_trade = column]
        rows   == df2.rows
        quick  == Ascending({i \in 1..n :
                     QuickAfterLoss(rows[i].status, df2.time_to_next_trade[i])})
        k      == Len(quick)
        \* quick['status'].shift(-1) == 'win': row j holds row j + 1 of the
        \* filtered table, the last row NaN, which is not 'win'
        nextWin == [j \in 1..k |->
                      IF j < k /\ rows[quick[j + 1]].status = "win" THEN 1 ELSE 0]
        \* quick['netPNL'].shift(-1): the NaN of the last row is skipped by mean()
        nextPnl == [j \in 1..(IF k = 0 THEN 0 ELSE k - 1) |-> rows[quick[j + 1]].netPNL]
    IN [df |-> df2,
        ret |-> Return(
           [quick_trades_after_losses |-> k,
            quick_trades_after_losses_success_rate |-> Mean(nextWin),
            avg_pnl_after_quick_trade |-> Mean(nextPnl)])]

\* analyze_risk_management_consistency
analyze_risk_management_consistency(df) ==
    LET rows == df.rows
        size == [i \in DOMAIN rows |-> rows[i].size]
    IN [df |-> df,
        ret |-> Return(
           [position_size_consistency |-> [std |-> Variance(size), mean |-> Mean(size)],
            stop_loss_consistency |->
                StdOf([i \in DOMAIN rows |->
                         <<Abs(rows[i].stopLoss - rows[i].entryPrice), rows[i].entryPrice>>]),
            risk_per_trade_consistency |->
                StdOf([i \in DOMAIN rows |->
                         <<Abs(rows[i].netPNL), rows[i].accountBalance>>])])]

\* get_behavior_insights: the three analyses run again (detect_revenge_trading
\* assigns its column again) and the sentences they lead to.  The sentences on
\* stop-loss and risk-per-trade consistency compare a standard deviation the
\* model does not evaluate and are not part of the value here.
get_behavior_insights(df) ==
    Bind(detect_overtrading(df), LAMBDA overtrading :
    Bind(detect_revenge_trading(overtrading.df), LAMBDA revenge :
    Bind(analyze_risk_management_consistency(revenge.df), LAMBDA risk :
    LET position    == risk.ret.value.position_size_consistency
        \* std / mean > 0.5, False when the std is NaN
        varies      == /\ position.std[2] # 0
                       /\ 4 * position.std[1] * position.mean[2] * position.mean[2]
                            > position.mean[1] * position.mean[1] * position.std[2]
    IN [df |-> risk.df,
        ret |-> Return(
            <<"trades per day">>
            \o (IF overtrading.ret.value.days_with_excessive_trading > 0
                  THEN <<"excessive trading">> ELSE << >>)
            \o (IF revenge.ret.value.quick_trades_after_losses > 0
                  THEN <<"quick trades after losses", "success rate of quick trades">>
                  ELSE << >>)
            \o (IF varies THEN <<"position sizes vary">>
                          ELSE <<"position sizes consistent">>))])))

\* calculate_loss_recovery_rate: the non-win rows counted per value of the
\* running number of wins; the mean of the counts that are positive.
calculate_loss_recovery_rate(df) ==
    LET rows == df.rows
        n    == Len(rows)
        cumsum(i) == Cardinality({j \in 1..i : rows[j].status = "win"})
        keys == {cumsum(i) : i \in 1..n}
        streak(g) == Cardinality({i \in 1..n : cumsum(i) = g /\ rows[i].status # "win"})
        kept == {g \in keys : streak(g) > 0}
        total == Cardinality({i \in 1..n : rows[i].status # "win" /\ cumsum(i) \in kept})
    IN [df |-> df, ret |-> Return(<<total, Cardinality(kept)>>)]

\* calculate_sharpe_ratio: mean / std * sqrt(252) of accountChange, kept as the
\* sum, the count and the variance of the column.
calculate_sharpe_ratio(df) ==
    LET chg == [i \in DOMAIN df.rows |-> df.rows[i].accountChange]
    IN [df |-> df,
        ret |-> Return([sum |-> SumSeq(chg), n |-> Len(chg), var |-> Variance(chg)])]

\* sharpe > a / b for positive a and b.  std is NaN for one row (every
\* comparison False); a zero std makes the quotient +inf, -inf or NaN by the
\* sign of the mean; otherwise mean / std * sqrt(252) > a / b is decided on the
\* squares.
SharpeAbove(sh, a, b) ==
    IF sh.var[2] = 0 THEN FALSE
    ELSE IF sh.var[1] = 0 THEN sh.sum > 0
    ELSE /\ sh.sum > 0
         /\ 252 * sh.sum * sh.sum * sh.var[2] * b * b > a * a * sh.n * sh.n * sh.var[1]

\* (accountBalance.cummax() - accountBalance).max() / accountBalance.iloc[0]
MaxDrawdown(rows) ==
    LET peak(i) == CHOOSE b \in {rows[j].accountBalance : j \in 1..i} :
                       \A j \in 1..i : rows[j].accountBalance <= b
        drops == {peak(i) - rows[i].accountBalance : i \in DOMAIN rows}
    IN <<CHOOSE d \in drops : \A e \in drops : e <= d, rows[1].accountBalance>>

\* The rule table with the drawdown thresholds made inclusive.
determine_risk_level_inclusive(df) ==
    LET sharpe_ratio == calculate_sharpe_ratio(df).ret.value
        max_drawdown == MaxDrawdown(df.rows)
    IN [df |-> df,
        ret |-> Return(
            IF SharpeAbove(sharpe_ratio, 3, 2) /\ 10 * max_drawdown[1] <= max_drawdown[2]
              THEN "Low"
            ELSE IF SharpeAbove(sharpe_ratio, 1, 2) /\ 10 * max_drawdown[1] <= 2 * max_drawdown[2]
              THEN "Moderate"
            ELSE "High")]

\* determine_risk_level
determine_risk_level(df) ==
    LET sharpe_ratio == calculate_sharpe_ratio(df).ret.value
        max_drawdown == MaxDrawdown(df.rows)
    IN [df |-> df,
        ret |-> Return(
            IF SharpeAbove(sharpe_ratio, 3, 2) /\ 10 * max_drawdown[1] < max_drawdown[2]
              THEN "Low"
            ELSE IF SharpeAbove(sharpe_ratio, 1, 2) /\ 10 * max_drawdown[1] < 2 * max_drawdown[2]
              THEN "Moderate"
            ELSE "High")]

----------------------------------------------------------------------------
(* The analyzers as objects: construction and method calls *)

FrameIds == 1..2

NoFrame == [rows |-> << >>, size_quartile |-> << >>, time_to_next_trade |-> << >>]

\* Every analyzer handed the same DataFrame object.
SharedFrameId(heap) == 1

\* A DataFrame is a new object: the first frame id not in use.
NewFrameId(heap) == CHOOSE id \in FrameIds :
                        /\ heap[id] = NoFrame
                        /\ \A other \in FrameIds : heap[other] = NoFrame => id <= other

NoCall == [self |-> "", op |-> "", ret |-> Return(<< >>)]

\* The analyzers are built over lists of records that carry the trade fields.
Constructible == HasTradeColumns(request_json) /\ SchemaLoads(request_json)

\* PatternAnalyzer.__init__
NewPatternAnalyzer ==
    /\ Constructible
    /\ pattern_analyzer = 0
    /\ LET id == NewFrameId(frames)
       IN /\ frames' = [frames EXCEPT ![id] = calculate_trade_metrics(request_json, argsort)]
          /\ pattern_analyzer' = id
    /\ lastCall' = [self |-> "PatternAnalyzer", op |-> "__init__", ret |-> Return(<< >>)]
    /\ UNCHANGED <<request_json, argsort, quantile, behavior_analyzer, response>>

\* BehaviorAnalyzer.__init__
NewBehaviorAnalyzer ==
    /\ Constructible
    /\ behavior_analyzer = 0
    /\ LET id == NewFrameId(frames)
       IN /\ frames' = [frames EXCEPT ![id] = calculate_trade_metrics(request_json, argsort)]
          /\ behavior_analyzer' = id
    /\ lastCall' = [self |-> "BehaviorAnalyzer", op |-> "__init__", ret |-> Return(<< >>)]
    /\ UNCHANGED <<request_json, argsort, quantile, pattern_analyzer, response>>

\* A method call on the PatternAnalyzer: the table it leaves and what it returns.
PatternCall(op, out) ==
    /\ pattern_analyzer # 0
    /\ frames' = [frames EXCEPT ![pattern_analyzer] = out.df]
    /\ lastCall' = [self |-> "PatternAnalyzer", op |-> op, ret |-> out.ret]
    /\ UNCHANGED <<request_json, argsort, quantile, pattern_analyzer, behavior_analyzer, response>>

\* A method call on the BehaviorAnalyzer.
BehaviorCall(op, out) ==
    /\ behavior_analyzer # 0
    /\ frames' = [frames EXCEPT ![behavior_analyzer] = out.df]
    /\ lastCall' = [self |-> "BehaviorAnalyzer", op |-> op, ret |-> out.ret]
    /\ UNCHANGED <<request_json, argsort, quantile, pattern_analyzer, behavior_analyzer, response>>

CallAnalyzePositionSizeImpact ==
    /\ pattern_analyzer # 0
    /\ PatternCall("analyze_position_size_impact",
                   analyze_position_size_impact(frames[pattern_analyzer]))

CallAnalyzePairDirectionBias ==
    /\ pattern_analyzer # 0
    /\ PatternCall("analyze_pair_direction_bias",
                   analyze_pair_direction_bias(frames[pattern_analyzer]))

CallAnalyzeRiskRewardPatterns ==
    /\ pattern_analyzer # 0
    /\ PatternCall("analyze_risk_reward_patterns",
                   analyze_risk_reward_patterns(frames[pattern_analyzer]))

CallDetectOvertrading ==
    /\ behavior_analyzer # 0
    /\ BehaviorCall("detect_overtrading", detect_overtrading(frames[behavior_analyzer]))

CallDetectRevengeTrading ==
    /\ behavior_analyzer # 0
    /\ BehaviorCall("detect_revenge_trading",
                    detect_revenge_trading(frames[behavior_analyzer]))

CallAnalyzeRiskManagementConsistency ==
    /\ behavior_analyzer # 0
    /\ BehaviorCall("analyze_risk_management_consistency",
                    analyze_risk_management_consistency(frames[behavior_analyzer]))

CallCalculateLossRecoveryRate ==
    /\ behavior_analyzer # 0
    /\ BehaviorCall("calculate_loss_recovery_rate",
                    calculate_loss_recovery_rate(frames[behavior_analyzer]))

CallCalculateSharpeRatio ==
    /\ behavior_analyzer # 0
    /\ BehaviorCall("calculate_sharpe_ratio",
                    calculate_sharpe_ratio(frames[behavior_analyzer]))

CallDetermineRiskLevel ==
    /\ behavior_analyzer # 0
    /\ BehaviorCall("determine_risk_level", determine_risk_level(frames[behavior_analyzer]))

CallGetPositionSizeInsights ==
    /\ pattern_analyzer # 0
    /\ PatternCall("get_position_size_insights",
                   get_position_size_insights(frames[pattern_analyzer]))

CallGetKeyTradingInsights ==
    /\ pattern_analyzer # 0
    /\ PatternCall("get_key_trading_insights",
                   get_key_trading_insights(frames[pattern_analyzer]))

NextPattern ==
    \/ NewPatternAnalyzer
    \/ CallAnalyzePositionSizeImpact
    \/ CallAnalyzePairDirectionBias
    \/ CallAnalyzeRiskRewardPatterns
    \/ CallGetPositionSizeInsights
    \/ CallGetKeyTradingInsights

NextBehavior ==
    \/ NewBehaviorAnalyzer
    \/ CallDetectOvertrading
    \/ CallDetectRevengeTrading
    \/ CallAnalyzeRiskManagementConsistency
    \/ CallCalculateLossRecoveryRate
    \/ CallCalculateSharpeRatio
    \/ CallDetermineRiskLevel

\* get_key_insights: the number of trades, the win rate, the total netPNL, the
\* Sharpe ratio and the risk level, which the method puts in one sentence.
get_key_insights(df) ==
    Bind(calculate_sharpe_ratio(df), LAMBDA sharpe :
    Bind(determine_risk_level(sharpe.df), LAMBDA risk :
    [df |-> risk.df,
     ret |-> Return([total_trades |-> Len(df.rows),
                     win_rate |-> <<Wins(df.rows, DOMAIN df.rows), Len(df.rows)>>,
                     total_pnl |-> SumSeq([i \in DOMAIN df.rows |-> df.rows[i].netPNL]),
                     sharpe_ratio |-> sharpe.ret.value,
                     risk_level |-> risk.ret.value])]))

----------------------------------------------------------------------------
(* The routes *)

\* No request answered yet.  A response is its status, the top-level keys of its
\* JSON body, the keys under 'analysis', the text under 'error', the exception
\* that left the view function (Flask answers 500) and the analyzer calls made.
NoResponse ==
    [route |-> "", status |-> 0, body |-> {}, analysis |-> {}, error |-> "",
     exception |-> "", ran |-> << >>]

\* The calls of a view function up to and including the first that raises.
RanUntilRaise(steps) ==
    LET raising == {i \in DOMAIN steps : steps[i].raised # ""}
        stop    == IF raising = {} THEN Len(steps)
                   ELSE CHOOSE i \in raising : \A j \in raising : i <= j
    IN [i \in 1..stop |-> steps[i].name]

FirstRaised(steps) ==
    LET raising == {i \in DOMAIN steps : steps[i].raised # ""}
    IN IF raising = {} THEN ""
       ELSE steps[CHOOSE i \in raising : \A j \in raising : i <= j].raised

Step(name, out) == [name |-> name, raised |-> out.ret.raised]

\* str(e): the message of the exception, without the name of its class.
str(raised) ==
    LET colon == {i \in 1..(Len(raised) - 1) : SubSeq(raised, i, i + 1) = ": "}
    IN IF colon = {} THEN raised
       ELSE SubSeq(raised, 2 + (CHOOSE i \in colon : \A j \in colon : i <= j), Len(raised))

\* The decorator with the verdict of the schema ignored.
validate_trades_unchecked(payload, answer) == answer

\* validate_trades: 400 with the validation messages when the schema rejects the
\* payload, the view function otherwise.
validate_trades(payload, answer) ==
    IF ~SchemaLoads(payload)
      THEN [status |-> 400, body |-> {}, analysis |-> {}, error |-> "ValidationError",
            exception |-> "", ran |-> << >>]
      ELSE answer

\* analyze_patterns: the analyzer is built outside the try block; the three
\* analyses and get_all_insights run inside it, and an exception there is
\* answered 500 with its text under 'error'.
analyze_patterns(trades) ==
    IF ~HasTradeColumns(trades)
      THEN [status |-> 500, body |-> {}, analysis |-> {}, error |-> "",
            exception |-> "KeyError", ran |-> <<"PatternAnalyzer">>]
      ELSE Bind(calculate_trade_metrics(trades, argsort), LAMBDA df :
           Bind(analyze_position_size_impact(df), LAMBDA a :
           Bind(analyze_pair_direction_bias(a.df), LAMBDA b :
           Bind(analyze_risk_reward_patterns(b.df), LAMBDA c :
           Bind(get_all_insights(c.df), LAMBDA d :
           Bind(<<Step("analyze_position_size_impact", a),
                  Step("analyze_pair_direction_bias", b),
                  Step("analyze_risk_reward_patterns", c),
                  Step("get_all_insights", d)>>, LAMBDA steps :
              IF FirstRaised(steps) # ""
                THEN [status |-> 500, body |-> {"error"}, analysis |-> {},
                      error |-> str(FirstRaised(steps)), exception |-> "",
                      ran |-> <<"PatternAnalyzer">> \o RanUntilRaise(steps)]
                ELSE [status |-> 200, body |-> {"analysis", "insights"},
                      analysis |-> {"position_size_impact", "direction_bias",
                                    "risk_reward_patterns"},
                      error |-> "", exception |-> "",
                      ran |-> <<"PatternAnalyzer">> \o RanUntilRaise(steps)]))))))

\* analyze_behavior: no try block; an exception leaves the view function.
analyze_behavior(trades) ==
    IF ~HasTradeColumns(trades)
      THEN [status |-> 500, body |-> {}, analysis |-> {}, error |-> "",
            exception |-> "KeyError", ran |-> <<"BehaviorAnalyzer">>]
      ELSE Bind(calculate_trade_metrics(trades, argsort), LAMBDA df :
           Bind(detect_overtrading(df), LAMBDA a :
           Bind(detect_revenge_trading(a.df), LAMBDA b :
           Bind(analyze_risk_management_consistency(b.df), LAMBDA c :
           Bind(get_behavior_insights(c.df), LAMBDA d :
           Bind(<<Step("detect_overtrading", a),
                  Step("detect_revenge_trading", b),
                  Step("analyze_risk_management_consistency", c),
                  Step("get_behavior_insights", d)>>, LAMBDA steps :
              IF FirstRaised(steps) # ""
                THEN [status |-> 500, body |-> {}, analysis |-> {}, error |-> "",
                      exception |-> FirstRaised(steps),
                      ran |-> <<"BehaviorAnalyzer">> \o RanUntilRaise(steps)]
                ELSE [status |-> 200, body |-> {"analysis", "insights"},
                      analysis |-> {"overtrading", "revenge_trading",
                                    "risk_management_consistency"},
                      error |-> "", exception |-> "",
                      ran |-> <<"BehaviorAnalyzer">> \o RanUntilRaise(steps)]))))))

\* combined_analysis: both analyzers are built outside the try block; every
\* analysis and insight method of the two runs inside it, and an exception
\* there is answered 500 with its text under 'error'.
combined_analysis(trades) ==
    IF ~HasTradeColumns(trades)
      THEN [status |-> 500, body |-> {}, analysis |-> {}, error |-> "",
            exception |-> "KeyError", ran |-> <<"PatternAnalyzer">>]
      ELSE Bind(calculate_trade_metrics(trades, argsort), LAMBDA df :
           Bind(analyze_position_size_impact(df), LAMBDA a :
           Bind(analyze_pair_direction_bias(a.df), LAMBDA b :
           Bind(analyze_risk_reward_patterns(b.df), LAMBDA c :
           Bind(get_all_insights(c.df), LAMBDA d :
           Bind(detect_overtrading(df), LAMBDA e :
           Bind(detect_revenge_trading(e.df), LAMBDA f :
           Bind(analyze_risk_management_consistency(f.df), LAMBDA g :
           Bind(calculate_loss_recovery_rate(g.df), LAMBDA h :
           Bind(calculate_sharpe_ratio(h.df), LAMBDA i :
           Bind(determine_risk_level(i.df), LAMBDA j :
           Bind(get_behavior_insights(j.df), LAMBDA k :
           Bind(get_key_insights(k.df), LAMBDA l :
           Bind(get_key_trading_insights(d.df), LAMBDA m :
           Bind(<<Step("analyze_position_size_impact", a),
                  Step("analyze_pair_direction_bias", b),
                  Step("analyze_risk_reward_patterns", c),
                  Step("get_all_insights", d),
                  Step("detect_overtrading", e),
                  Step("detect_revenge_trading", f),
                  Step("analyze_risk_management_consistency", g),
                  Step("calculate_loss_recovery_rate", h),
                  Step("calculate_sharpe_ratio", i),
                  Step("determine_risk_level", j),
                  Step("get_behavior_insights", k),
                  Step("get_key_insights", l),
                  Step("get_key_trading_insights", m)>>, LAMBDA steps :
              IF FirstRaised(steps) # ""
                THEN [status |-> 500, body |-> {"error"}, analysis |-> {},
                      error |-> str(FirstRaised(steps)), exception |-> "",
                      ran |-> <<"PatternAnalyzer", "BehaviorAnalyzer">>
                              \o RanUntilRaise(steps)]
                ELSE [status |-> 200,
                      body |-> {"pattern_analysis", "pattern_insights",
                                "behavior_analysis", "behavior_insights",
                                "key_insights", "key_trading_insights"},
                      analysis |-> {"position_size_impact", "direction_bias",
                                    "risk_reward_patterns", "overtrading",
                                    "revenge_trading", "risk_management_consistency",
                                    "loss_recovery_rate", "sharpe_ratio", "risk_level"},
                      error |-> "", exception |-> "",
                      ran |-> <<"PatternAnalyzer", "BehaviorAnalyzer">>
                              \o RanUntilRaise(steps)])))))))))))))))

Served(route, answer) ==
    [route |-> route, status |-> answer.status, body |-> answer.body,
     analysis |-> answer.analysis, error |-> answer.error,
     exception |-> answer.exception, ran |-> answer.ran]

\* POST /api/v1/analyze/patterns
PostPatterns ==
    /\ response' = Served("/patterns",
                          validate_trades(request_json, analyze_patterns(request_json)))
    /\ UNCHANGED <<request_json, argsort, quantile, frames, pattern_analyzer, behavior_analyzer,
                   lastCall>>

\* POST /api/v1/analyze/behavior
PostBehavior ==
    /\ response' = Served("/behavior",
                          validate_trades(request_json, analyze_behavior(request_json)))
    /\ UNCHANGED <<request_json, argsort, quantile, frames, pattern_analyzer, behavior_analyzer,
                   lastCall>>

\* POST /api/v1/analyze/combined-analysis
PostCombined ==
    /\ response' = Served("/combined-analysis",
                          validate_trades(request_json, combined_analysis(request_json)))
    /\ UNCHANGED <<request_json, argsort, quantile, frames, pattern_analyzer,
                   behavior_analyzer, lastCall>>

NextRoutes == PostPatterns \/ PostBehavior \/ PostCombined

----------------------------------------------------------------------------
(* The requests served *)

\* tests/test_data/sample_trades.json, as the test posts it (accountId added):
\* prices in pips, sizes in hundredths of a lot, netPNL in tenths, accountBalance
\* in tenths, accountChange in hundredths of a percent, dates in minutes since
\* 2023-12-27T00:00.  A pair is the list of the pieces of its text.
SampleTrades ==
    << [accountId |-> 1, pair |-> <<"EUR", "/", "AUD">>, direction |-> "short",
        status |-> "loss", strategy |-> "none", date |-> 49815,
        accountBalance |-> 13545, entryPrice |-> 16234, size |-> 15,
        stopLoss |-> 16270, target |-> 16180, exitPrice |-> 16265,
        netPNL |-> -465, accountChange |-> -343],
       [accountId |-> 1, pair |-> <<"AUD", "/", "USD">>, direction |-> "short",
        status |-> "loss", strategy |-> "none", date |-> 5130,
        accountBalance |-> 10760, entryPrice |-> 6789, size |-> 30,
        stopLoss |-> 6810, target |-> 6750, exitPrice |-> 6805,
        netPNL |-> -480, accountChange |-> -446],
       [accountId |-> 1, pair |-> <<"USD", "/", "JPY">>, direction |-> "long",
        status |-> "win", strategy |-> "none", date |-> 495,
        accountBalance |-> 10010, entryPrice |-> 13145, size |-> 15,
        stopLoss |-> 13120, target |-> 13200, exitPrice |-> 13195,
        netPNL |-> 750, accountChange |-> 749] >>

\* A short losing trade and a long winning trade; the other trades of the
\* model are these with some fields replaced.
LosingTrade ==
    [accountId |-> 1, pair |-> <<"EUR", "/", "AUD">>, direction |-> "short",
     status |-> "loss", strategy |-> "none", date |-> 0, accountBalance |-> 100,
     entryPrice |-> 10, size |-> 1, stopLoss |-> 12, target |-> 7, exitPrice |-> 12,
     netPNL |-> -5, accountChange |-> -3]

WinningTrade ==
    [accountId |-> 1, pair |-> <<"USD", "/", "JPY">>, direction |-> "long",
     status |-> "win", strategy |-> "none", date |-> 0, accountBalance |-> 100,
     entryPrice |-> 10, size |-> 1, stopLoss |-> 9, target |-> 13, exitPrice |-> 13,
     netPNL |-> 7, accountChange |-> 4]

\* The lists of 1..MaxTrades trades drawn from a set of trades.
Batches(T) == UNION {[1..n -> T] : n \in 1..MaxTrades}

\* The same list dated one day apart, newest first (as the sample file is).
NewestFirst(b) == [i \in DOMAIN b |-> [b[i] EXCEPT !.date = (Len(b) - i) * MinutesPerDay]]

\* Position sizes and targets for the quantile buckets: sizes that tie and that
\* differ, three risk/reward ratios.
BucketTrades ==
    {[t EXCEPT !.size = s, !.target = g] :
        t \in {LosingTrade}, s \in {1, 2, 3}, g \in {7, 6}}
    \cup {[WinningTrade EXCEPT !.size = s] : s \in {1, 2}}

\* Trades whose stop loss is their entry price, with a positive reward and
\* with none, among trades of three finite risk/reward ratios.
ZeroRiskTrades ==
    {[LosingTrade EXCEPT !.stopLoss = 10, !.target = g, !.size = s] :
        g \in {7, 10}, s \in {1, 2}}
    \cup {LosingTrade, [WinningTrade EXCEPT !.size = 2],
          [LosingTrade EXCEPT !.target = 6, !.size = 3]}

\* Times of day for the gaps between trades: 10, 30, 40, 110 and 120 minutes
\* apart, and the same minute twice.
TimingTrades ==
    {[t EXCEPT !.date = d, !.netPNL = t.netPNL - (d \div 10)] :
        t \in {LosingTrade, WinningTrade}, d \in {0, 10, 40, 120}}

\* Balances and returns for the risk rules: drawdowns of 5, 10, 15 and 20
\* percent of 100, returns whose Sharpe ratio falls in every band.
RiskTrades ==
    {[LosingTrade EXCEPT !.accountBalance = b, !.accountChange = c] :
        b \in {100, 95, 90, 85, 80}, c \in {-10, 11, 2}}

\* Trades for calls made in any order: sizes and minutes that tie and differ.
ServiceTrades ==
    {[LosingTrade EXCEPT !.date = 0], [LosingTrade EXCEPT !.date = 10],
     [WinningTrade EXCEPT !.size = 2], [WinningTrade EXCEPT !.date = 10]}

\* One trade whose target is its entry price: a reward and an rr_ratio of 0.
FlatTrade == [LosingTrade EXCEPT !.target = 10, !.size = 3]

\* Payloads the schema rejects: the item of the test, the sample file as it is
\* on disk (no accountId), and a trade with a field the schema does not declare.
InvalidPayloads ==
    { <<[invalid |-> "data"]>>,
      [i \in DOMAIN SampleTrades |->
          [f \in DOMAIN SampleTrades[i] \ {"accountId"} |-> SampleTrades[i][f]]],
      <<[f \in DOMAIN LosingTrade \cup {"_id"} |->
            IF f = "_id" THEN "65b8" ELSE LosingTrade[f]]>> }

RoutePayloads ==
    {NewestFirst(b) : b \in Batches(BucketTrades \cup {FlatTrade})}
    \cup {SampleTrades, << >>}
    \cup InvalidPayloads

\* The two quantile routines differ only on a column that holds inf.
HasInfiniteRatio(payload) ==
    /\ HasTradeColumns(payload)
    /\ \E i \in DOMAIN payload :
          payload[i].entryPrice = payload[i].stopLoss
          /\ payload[i].target # payload[i].entryPrice

InitObjects ==
    /\ frames = [id \in FrameIds |-> NoFrame]
    /\ pattern_analyzer = 0
    /\ behavior_analyzer = 0
    /\ lastCall = NoCall
    /\ response = NoResponse

InitRequest(payloads) ==
    /\ request_json \in payloads
    /\ argsort \in IF HasTradeColumns(request_json) THEN SortedOrders(request_json)
                   ELSE {<< >>}
    /\ quantile \in IF HasInfiniteRatio(request_json) THEN QuantileBuilds ELSE {"numpy"}
    /\ InitObjects

InitBuckets == InitRequest({NewestFirst(b) : b \in Batches(BucketTrades)} \cup {SampleTrades})

InitTiming == InitRequest(Batches(TimingTrades))

InitRisk == InitRequest({NewestFirst(b) : b \in Batches(RiskTrades)})

Init == InitRequest(Batches(ServiceTrades))

Next == NextPattern \/ NextBehavior

Spec == Init /\ [][Next]_vars

InitRoutes == InitRequest(RoutePayloads)

InitZeroRisk == InitRequest({NewestFirst(b) : b \in Batches(ZeroRiskTrades)})

SpecZeroRisk == InitZeroRisk /\ [][NextPattern]_vars

SpecRoutes == InitRoutes /\ [][NextRoutes]_vars

SpecPattern == InitBuckets /\ [][NextPattern]_vars

SpecBehavior == InitTiming /\ [][NextBehavior]_vars

SpecRisk == InitRisk /\ [][NextBehavior]_vars

----------------------------------------------------------------------------
(* Properties *)

\* The table of the analyzer the last call was made on.
CalledFrame ==
    IF lastCall.self = "PatternAnalyzer" THEN frames[pattern_analyzer]
    ELSE frames[behavior_analyzer]

Called(op) == lastCall.op = op

\* Two quotients <<num, den>> are the same number (NaN taken equal to NaN).
SameQuotient(a, b) ==
    /\ (a[2] = 0) <=> (b[2] = 0)
    /\ a[1] * b[2] = b[1] * a[2]

\* C1: for a batch of fewer than 4 rows, ties in size or rr_ratio included,
\* analyze_position_size_impact and analyze_risk_reward_patterns return without
\* raising, with at most n buckets, and the size labels used are the first k
\* labels, k being the number of buckets produced.
C1_SmallBatchBuckets ==
    (/\ Called("analyze_position_size_impact") \/ Called("analyze_risk_reward_patterns")
     /\ Len(request_json) < TargetBuckets)
    => /\ lastCall.ret.raised = ""
       /\ Cardinality(DOMAIN lastCall.ret.value) <= Len(request_json)
       /\ Called("analyze_position_size_impact") =>
            DOMAIN lastCall.ret.value =
                Range(SubSeq(SizeLabels, 1, Cardinality(DOMAIN lastCall.ret.value)))

\* The losses of the date-sorted table that the next trade follows in under 30
\* minutes; the last row has no next trade.
FlaggedRows(rows) ==
    {i \in 1..(Len(rows) - 1) :
        rows[i].status = "loss" /\ rows[i + 1].date - rows[i].date < 30}

\* C2: detect_revenge_trading reports the win rate and the mean netPNL of the
\* trades that immediately follow each flagged trade in the date-sorted table.
C2_StatsOfNextTrade ==
    Called("detect_revenge_trading") =>
        LET rows    == CalledFrame.rows
            flagged == FlaggedRows(rows)
            value   == lastCall.ret.value
        IN /\ SameQuotient(value.quick_trades_after_losses_success_rate,
                 <<Cardinality({i \in flagged : rows[i + 1].status = "win"}),
                   Cardinality(flagged)>>)
           /\ SameQuotient(value.avg_pnl_after_quick_trade,
                 <<SumSeq([j \in 1..Cardinality(flagged) |->
                             rows[Ascending(flagged)[j] + 1].netPNL]),
                   Cardinality(flagged)>>)

\* C3: quick_trades_after_losses is the number of losses, in date order, whose
\* next trade comes strictly under 30 minutes later; the last trade is never
\* counted and the call does not raise.  For trades at T0 (loss), T0 + 10 min
\* (not a loss) and T0 + 2 h, the count is 1.
C3_QuickLossCount ==
    Called("detect_revenge_trading") =>
        /\ lastCall.ret.raised = ""
        /\ lastCall.ret.value.quick_trades_after_losses =
               Cardinality(FlaggedRows(CalledFrame.rows))
        /\ (/\ Len(CalledFrame.rows) = 3
            /\ [i \in 1..3 |-> CalledFrame.rows[i].date] = <<0, 10, 120>>
            /\ CalledFrame.rows[1].status = "loss"
            /\ CalledFrame.rows[2].status = "win")
           => lastCall.ret.value.quick_trades_after_losses = 1

C3_Witness ==
    /\ Called("detect_revenge_trading")
    /\ Len(CalledFrame.rows) = 3
    /\ [i \in 1..3 |-> CalledFrame.rows[i].date] = <<0, 10, 120>>
    /\ CalledFrame.rows[1].status = "loss"
    /\ CalledFrame.rows[2].status = "win"
    /\ CalledFrame.rows[3].status = "loss"
    /\ lastCall.ret.value.quick_trades_after_losses = 1

\* C4: on a table with no winning trade calculate_loss_recovery_rate returns the
\* undefined value (NaN), not a number, and does not raise.
C4_NoWinsIsUndefined ==
    (/\ Called("calculate_loss_recovery_rate")
     /\ \A i \in DOMAIN CalledFrame.rows : CalledFrame.rows[i].status # "win")
    => /\ lastCall.ret.raised = ""
       /\ lastCall.ret.value[2] = 0

\* The Sharpe ratio and the drawdown of the request, from the posted list:
\* the trades are taken by date (the dates of a list differ here).
RequestSharpe ==
    LET chg == [i \in DOMAIN request_json |-> request_json[i].accountChange]
    IN [sum |-> SumSeq(chg), n |-> Len(chg), var |-> Variance(chg)]

RequestDrawdown ==
    LET trades   == Range(request_json)
        earliest == CHOOSE t \in trades : \A u \in trades : t.date <= u.date
        peak(t)  == CHOOSE b \in {u.accountBalance : u \in {v \in trades : v.date <= t.date}} :
                        \A u \in trades : u.date <= t.date => u.accountBalance <= b
        drops    == {peak(t) - t.accountBalance : t \in trades}
    IN <<CHOOSE d \in drops : \A e \in drops : e <= d, earliest.accountBalance>>

SharpeIsNaN(sh) == sh.var[2] = 0 \/ (sh.var[1] = 0 /\ sh.sum = 0)

TradeColumns ==
    {"pair", "direction", "status", "date", "accountBalance", "entryPrice", "size",
     "stopLoss", "target", "netPNL", "accountChange"}

\* C6: the table calculate_trade_metrics returns holds exactly the rows of the
\* input (same count, none dropped or added), each with risk = |entryPrice -
\* stopLoss|, reward = |target - entryPrice| and rr_ratio = reward / risk, in
\* non-decreasing order of date.
C6_DerivePreservesRows ==
    \A id \in FrameIds :
        frames[id] # NoFrame =>
            LET rows == frames[id].rows
                n    == Len(request_json)
            IN /\ Len(rows) = n
               /\ \E p \in Perms(n) :
                     \A i \in 1..n : \A c \in TradeColumns : rows[i][c] = request_json[p[i]][c]
               /\ \A i \in 1..n :
                     /\ rows[i].risk = Abs(rows[i].entryPrice - rows[i].stopLoss)
                     /\ rows[i].reward = Abs(rows[i].target - rows[i].entryPrice)
                     /\ rows[i].rr_ratio = <<rows[i].reward, rows[i].risk>>
               /\ \A i \in 1..(n - 1) : rows[i].date <= rows[i + 1].date

\* A table of three rows built from a list that was not in date order.
C6_Witness ==
    /\ behavior_analyzer # 0
    /\ Len(frames[behavior_analyzer].rows) = 3
    /\ request_json[1].date > request_json[3].date
    /\ request_json[2].date = request_json[3].date
    /\ frames[behavior_analyzer].rows[1].date < frames[behavior_analyzer].rows[3].date

\* What method op returns on the table df.
MethodOn(op, df) ==
    CASE op = "analyze_position_size_impact" -> analyze_position_size_impact(df)
      [] op = "analyze_pair_direction_bias" -> analyze_pair_direction_bias(df)
      [] op = "analyze_risk_reward_patterns" -> analyze_risk_reward_patterns(df)
      [] op = "get_position_size_insights" -> get_position_size_insights(df)
      [] op = "get_key_trading_insights" -> get_key_trading_insights(df)
      [] op = "detect_overtrading" -> detect_overtrading(df)
      [] op = "detect_revenge_trading" -> detect_revenge_trading(df)
      [] op = "analyze_risk_management_consistency" -> analyze_risk_management_consistency(df)
      [] op = "calculate_loss_recovery_rate" -> calculate_loss_recovery_rate(df)
      [] op = "calculate_sharpe_ratio" -> calculate_sharpe_ratio(df)
      [] op = "determine_risk_level" -> determine_risk_level(df)

SameOutcome(a, b) ==
    /\ a.raised = b.raised
    /\ a.raised = "" => a.value = b.value

\* C7: whatever was called before on the same analyzer, and how often, a method
\* returns what it returns when called first on a fresh analyzer over the same
\* input; and the column one analyzer assigns is not in the table of the other.
C7_CallsAreIndependent ==
    /\ lastCall.op \notin {"", "__init__"} =>
          SameOutcome(lastCall.ret,
                      MethodOn(lastCall.op,
                               calculate_trade_metrics(request_json, argsort)).ret)
    /\ (pattern_analyzer # 0 /\ behavior_analyzer # 0) =>
          pattern_analyzer # behavior_analyzer
    /\ behavior_analyzer # 0 => frames[behavior_analyzer].size_quartile = << >>
    /\ pattern_analyzer # 0 => frames[pattern_analyzer].time_to_next_trade = << >>

\* Both column-assigning steps have run, each on its analyzer, and another
\* method of the pattern analyzer is called after them.
C7_Witness ==
    /\ pattern_analyzer # 0
    /\ behavior_analyzer # 0
    /\ frames[pattern_analyzer].size_quartile # << >>
    /\ frames[behavior_analyzer].time_to_next_trade # << >>
    /\ Called("analyze_risk_reward_patterns")

\* C8: a payload that fails the trade schema is answered 400 on /patterns and
\* on /behavior, and no analyzer is built or run for it.
C8_InvalidPayloadIs400 ==
    (response.route # "" /\ ~SchemaLoads(request_json))
    => /\ response.status = 400
       /\ response.ran = << >>

C8_Witness ==
    /\ response.route = "/behavior"
    /\ request_json = <<[invalid |-> "data"]>>
    /\ response.status = 400

\* C9: a schema-valid batch is answered 200 on /patterns with the keys
\* position_size_impact, direction_bias and risk_reward_patterns in the body, and
\* 200 on /behavior with overtrading, revenge_trading and
\* risk_management_consistency (looked for at the top level and under 'analysis').
C9_ValidBatchIs200 ==
    (response.route # "" /\ SchemaLoads(request_json) /\ Len(request_json) > 0)
    => /\ response.status = 200
       /\ response.route = "/patterns" =>
             {"position_size_impact", "direction_bias", "risk_reward_patterns"}
                 \subseteq (response.body \cup response.analysis)
       /\ response.route = "/behavior" =>
             {"overtrading", "revenge_trading", "risk_management_consistency"}
                 \subseteq (response.body \cup response.analysis)

\* process_input of the TradeSchema in pattern_routes.py: the pair without "/".
\* validate_trades loads the TradeSchema of app.models.trade, which has no such
\* step, and the analyzers are built from request.json as posted.
CleanPair(pair) == SelectSeq(pair, LAMBDA piece : piece # "/")

\* C10: on the sample trades analyze_pair_direction_bias returns exactly
\* EURAUD -> short (win_rate 0.0), AUDUSD -> short (win_rate 0.0) and
\* USDJPY -> long (win_rate 1.0).
C10_SampleDirectionBias ==
    (Called("analyze_pair_direction_bias") /\ request_json = SampleTrades)
    => LET value == lastCall.ret.value
       IN /\ lastCall.ret.raised = ""
          /\ DOMAIN value = {CleanPair(<<"EUR", "/", "AUD">>),
                             CleanPair(<<"AUD", "/", "USD">>),
                             CleanPair(<<"USD", "/", "JPY">>)}
          /\ DOMAIN value[<<"EUR", "AUD">>] = {"short"}
          /\ value[<<"EUR", "AUD">>]["short"].win_rate = 0
          /\ DOMAIN value[<<"AUD", "USD">>] = {"short"}
          /\ value[<<"AUD", "USD">>]["short"].win_rate = 0
          /\ DOMAIN value[<<"USD", "JPY">>] = {"long"}
          /\ value[<<"USD", "JPY">>]["long"].win_rate = 10000

\* C11: when the n >= 1 trades of the table all fall on the same calendar day,
\* detect_overtrading returns max_trades_per_day = avg_trades_per_day = n and
\* days_with_excessive_trading = 0.
SameDay(rows) ==
    \A i, j \in DOMAIN rows : rows[i].date \div 1440 = rows[j].date \div 1440

C11_SameDayOvertrading ==
    (/\ Called("detect_overtrading")
     /\ Len(CalledFrame.rows) >= 1
     /\ SameDay(CalledFrame.rows))
    => /\ lastCall.ret.raised = ""
       /\ lastCall.ret.value.max_trades_per_day = Len(CalledFrame.rows)
       /\ SameQuotient(lastCall.ret.value.avg_trades_per_day,
                       <<Len(CalledFrame.rows), 1>>)
       /\ lastCall.ret.value.days_with_excessive_trading = 0

C11_Witness ==
    /\ Called("detect_overtrading")
    /\ Len(CalledFrame.rows) = 3
    /\ SameDay(CalledFrame.rows)
    /\ [i \in 1..3 |-> CalledFrame.rows[i].date] = <<0, 10, 120>>
    /\ lastCall.ret.value.max_trades_per_day = 3
    /\ lastCall.ret.value.days_with_excessive_trading = 0

\* C13: a row whose risk is 0 gets the undefined marker (inf or NaN) as its
\* rr_ratio without calculate_trade_metrics raising, for a positive reward and
\* for a reward of 0, and analyze_risk_reward_patterns on a table that holds
\* such a row returns without raising.
C13_ZeroRiskIsHandled ==
    /\ Called("__init__") =>
          /\ lastCall.ret.raised = ""
          /\ \A i \in DOMAIN CalledFrame.rows :
                CalledFrame.rows[i].risk = 0 => CalledFrame.rows[i].rr_ratio[2] = 0
    /\ (Called("analyze_risk_reward_patterns") /\ ZeroRisk(CalledFrame.rows))
          => lastCall.ret.raised = ""

\* C14: get_key_trading_insights returns exactly 3 lines, a pair-direction
\* line, a position-size line naming the size bucket of highest win rate and a
\* risk-reward line naming the rr interval of highest win rate, also when no
\* (pair, direction) group has a win rate of exactly 100%.  Stated for the
\* calls that return.
C14_ThreeLineDigest ==
    (Called("get_key_trading_insights") /\ lastCall.ret.raised = "") =>
        LET lines == lastCall.ret.value
            sizes == analyze_position_size_impact(CalledFrame).ret.value
            rrs   == analyze_risk_reward_patterns(CalledFrame).ret.value
        IN /\ Len(lines) = 3
           /\ lines[1].about = "Pair Direction"
           /\ lines[2].about = "Position Size"
           /\ \A c \in DOMAIN sizes : sizes[c].win_rate <= lines[2].win_rate
           /\ sizes[lines[2].names[1]].win_rate = lines[2].win_rate
           /\ lines[3].about = "Risk-Reward"
           /\ \A k \in DOMAIN rrs : rrs[k].win_rate <= lines[3].win_rate
           /\ rrs[lines[3].names[1]].win_rate = lines[3].win_rate

\* C15: calculate_loss_recovery_rate returns the mean length of the non-empty
\* loss streaks of the date-ordered table, a loss streak being a run of
\* consecutive non-win trades that follows a win; the non-win trades before the
\* first win form no streak and do not count.  Stated for tables with a win.
C15_StreaksFollowAWin ==
    (/\ Called("calculate_loss_recovery_rate")
     /\ \E i \in DOMAIN CalledFrame.rows : CalledFrame.rows[i].status = "win")
    => LET rows == CalledFrame.rows
           after_a_win == {i \in DOMAIN rows :
                             /\ rows[i].status # "win"
                             /\ \E j \in 1..(i - 1) : rows[j].status = "win"}
           streaks == {i \in after_a_win : rows[i - 1].status = "win"}
       IN /\ lastCall.ret.raised = ""
          /\ SameQuotient(lastCall.ret.value,
                          <<Cardinality(after_a_win), Cardinality(streaks)>>)

\* C16: every sentence get_position_size_insights emits compares the lowest
\* size quantile present in the analysis with the highest one present, and the
\* side it speaks of as larger is the higher quantile.
C16_ComparesExtremeBuckets ==
    (Called("get_position_size_insights") /\ lastCall.ret.raised = "") =>
        LET analysis == analyze_position_size_impact(CalledFrame).ret.value
            present  == {i \in DOMAIN SizeLabels : SizeLabels[i] \in DOMAIN analysis}
            lowest   == SizeLabels[CHOOSE i \in present : \A j \in present : i <= j]
            highest  == SizeLabels[CHOOSE i \in present : \A j \in present : j <= i]
        IN \A n \in DOMAIN lastCall.ret.value :
              /\ lastCall.ret.value[n].smaller = lowest
              /\ lastCall.ret.value[n].larger = highest

\* C12: when a computation fails during a request, on /patterns, /behavior or
\* /combined-analysis, also while the analyzer is being constructed, the
\* response names the computation that failed (the analyzer or the method);
\* it is never the bare text of the exception nor an unhandled error.
Contains(text, name) ==
    \E i \in 1..(Len(text) - Len(name) + 1) : SubSeq(text, i, i + Len(name) - 1) = name

C12_FailureNamesComputation ==
    (response.status = 500 /\ response.ran # << >>) =>
        /\ response.exception = ""
        /\ "error" \in response.body
        /\ \/ Contains(response.error, response.ran[Len(response.ran)])
           \/ Contains(response.error, "PatternAnalyzer")
           \/ Contains(response.error, "BehaviorAnalyzer")

====
